---- MODULE Spec2Model ----
(***************************************************************************)
(* Model of the key-value HTTP service of main.go: a memory store and a    *)
(* file store persisted as JSON (load on open, full rewrite on every Set). *)
(*                                                                         *)
(* A Go string is a sequence of code units.  Three kinds of unit matter to *)
(* encoding/json: ordinary characters ("a", "b"), a byte that is not valid *)
(* UTF-8 ("xFF") and the replacement character U+FFFD ("uFFFD").           *)
(* The backing file is a sequence of JSON tokens; a string literal token   *)
(* carries the text between its quotes.                                    *)
(***************************************************************************)
EXTENDS Integers, Sequences, FiniteSets, TLC

VARIABLES
    phase,   \* "boot" (main not yet run), "serving", "exited" (log.Fatalf / runtime fatal)
    store,   \* store["memory"], store["file"]: the map m of each MemStorage
    file,    \* content of somefile.json, a sequence of tokens
    off,     \* cursor of the open handle fs.f
    pc,      \* pc[h]: position of handler goroutine h
    req,     \* req[h]: the request h is serving
    buf,     \* buf[h]: bytes the encoder of h has marshalled and not yet written
    ret,     \* ret[h]: outcome of the last call h completed
    logged,  \* what log.Fatalf / log.Fatal printed when the process exited
    hist     \* history of the running process, for stating the properties:
             \*   okSet: some FileStorage.Set has returned nil
             \*   wrote[r]: the keys Set was called with on route r
             \*   loaded: the keys NewFileStorage decoded from the file
             \*   empty: the file was zero-length when NewFileStorage opened it
             \*   failed: the latest FileStorage.Set that returned an error, until
             \*           Set is called with its key again
             \*   ioFailed: some FileStorage.Set has returned an error

vars == <<phase, store, file, off, pc, req, buf, ret, logged, hist>>

\* ------------------------------------------------------------------ inputs
Handlers == {"h1", "h2"}
SeqHandlers == {"h1"}
Routes == {"memory", "file"}
Keys == {<<"a">>, <<"xFF">>}
Values == {<<"a">>, <<"xFF">>}

\* ------------------------------------------------------------------ errors
NoErr == "nil"
ErrNotFound == "err not found"
ErrTruncate == "unable to truncate file"
ErrSeek == "unable to get the beginning of file"
ErrEncode == "unable to encode data into the file"
ErrMemSet == "unable to add new key in memorystorage"
ErrNilMap == "panic: assignment to entry in nil map"
ErrOpenDecode == "unable to decode contents of file"
ErrOpen == "unable to open file"
ErrListen == "listen tcp :8080"

\* ------------------------------------------------------------------ tokens
Tok(t) == [t |-> t, s |-> <<>>]
Lit(s) == [t |-> "str", s |-> s]
LBrace == Tok("{")
RBrace == Tok("}")
Colon == Tok(":")
Comma == Tok(",")
Newline == Tok("ws")
Null == Tok("null")
Num == Tok("num")
Junk == Tok("junk")

\* ------------------------------------------------------------------ maps
\* A Go map: nil, or a finite function from strings to strings.
EmptyKV == [k \in {} |-> <<>>]
MakeMap == [isNil |-> FALSE, kv |-> EmptyKV]
NilMap == [isNil |-> TRUE, kv |-> EmptyKV]

KVPut(kv, key, value) ==
    [x \in (DOMAIN kv) \cup {key} |-> IF x = key THEN value ELSE kv[x]]

\* ------------------------------------------------------------------ MemStorage
\* MemGet that drops the ok check of the lookup.
MemGetNoCheck(m, key) ==
    [value |-> IF key \in DOMAIN m.kv THEN m.kv[key] ELSE <<>>, err |-> NoErr]

\* src/main.go 24-32: lookup; a nil map reads as empty.
MemGet(m, key) ==
    IF key \in DOMAIN m.kv
    THEN [value |-> m.kv[key], err |-> NoErr]
    ELSE [value |-> <<>>, err |-> ErrNotFound]

\* MemSet that keeps the value a key already has.
MemSetKeepFirst(m, key, value) ==
    IF m.isNil
    THEN [m |-> m, err |-> ErrNilMap]
    ELSE IF key \in DOMAIN m.kv
    THEN [m |-> m, err |-> NoErr]
    ELSE [m |-> [m EXCEPT !.kv = KVPut(m.kv, key, value)], err |-> NoErr]

\* MemSet that replaces the whole map by the one entry.
MemSetReplaceAll(m, key, value) ==
    IF m.isNil
    THEN [m |-> m, err |-> ErrNilMap]
    ELSE [m |-> [m EXCEPT !.kv = KVPut(EmptyKV, key, value)], err |-> NoErr]

\* src/main.go 34-37: ms.m[key] = value; assignment to an entry of a nil map panics.
MemSet(m, key, value) ==
    IF m.isNil
    THEN [m |-> m, err |-> ErrNilMap]
    ELSE [m |-> [m EXCEPT !.kv = KVPut(m.kv, key, value)], err |-> NoErr]

\* src/main.go 38-40
NewMemStorage == MakeMap

\* ------------------------------------------------------------------ encoding/json
\* Strings are coerced to valid UTF-8 on both ways: an invalid byte becomes U+FFFD.
Coerce(s) == [i \in 1..Len(s) |-> IF s[i] = "xFF" THEN "uFFFD" ELSE s[i]]

\* Byte order of the units, for the encoder's sorted keys.
UnitRank(u) ==
    CASE u = "a" -> 1
      [] u = "b" -> 2
      [] u = "uFFFD" -> 3
      [] OTHER -> 4

RECURSIVE StrLess(_, _)
StrLess(s, t) ==
    IF t = <<>> THEN FALSE
    ELSE IF s = <<>> THEN TRUE
    ELSE IF UnitRank(Head(s)) # UnitRank(Head(t)) THEN UnitRank(Head(s)) < UnitRank(Head(t))
    ELSE StrLess(Tail(s), Tail(t))

MinKey(ks) == CHOOSE k \in ks : \A x \in ks \ {k} : StrLess(k, x)

RECURSIVE Members(_, _)
Members(kv, ks) ==
    IF ks = {} THEN <<>>
    ELSE LET k == MinKey(ks)
             rest == ks \ {k}
         IN  <<Lit(Coerce(k)), Colon, Lit(Coerce(kv[k]))>>
                 \o (IF rest = {} THEN <<>> ELSE <<Comma>>)
                 \o Members(kv, rest)

\* json.NewEncoder(w).Encode(&m), src/main.go 67: the bytes handed to w.Write.
Marshal(m) ==
    IF m.isNil THEN <<Null, Newline>>
    ELSE <<LBrace>> \o Members(m.kv, DOMAIN m.kv) \o <<RBrace, Newline>>

DecEOF == "EOF"
DecUnexpectedEOF == "unexpected EOF"
DecSyntax == "invalid character"
DecType == "json: cannot unmarshal"

\* Scan of the first JSON value, an object, from token i on; members of the
\* outermost object are stored into kv (a later duplicate key wins).
RECURSIVE Scan(_, _, _, _, _, _, _)
Scan(toks, i, st, depth, key, kv, typeErr) ==
    IF i > Len(toks) THEN [err |-> DecUnexpectedEOF, kv |-> kv]
    ELSE LET c == toks[i] IN
      CASE st \in {"first", "key"} /\ c.t = "str" ->
             Scan(toks, i + 1, "colon", depth,
                  IF depth = 1 THEN Coerce(c.s) ELSE key, kv, typeErr)
        [] st \in {"first", "next"} /\ c.t = "}" ->
             IF depth = 1
             THEN [err |-> IF typeErr THEN DecType ELSE NoErr, kv |-> kv]
             ELSE Scan(toks, i + 1, "next", depth - 1, key, kv, typeErr)
        [] st = "colon" /\ c.t = ":" ->
             Scan(toks, i + 1, "value", depth, key, kv, typeErr)
        [] st = "value" /\ c.t = "str" ->
             Scan(toks, i + 1, "next", depth, key,
                  IF depth = 1 THEN KVPut(kv, key, Coerce(c.s)) ELSE kv, typeErr)
        [] st = "value" /\ c.t = "null" ->
             Scan(toks, i + 1, "next", depth, key,
                  IF depth = 1 THEN KVPut(kv, key, <<>>) ELSE kv, typeErr)
        [] st = "value" /\ c.t = "num" ->
             Scan(toks, i + 1, "next", depth, key,
                  IF depth = 1 THEN KVPut(kv, key, <<>>) ELSE kv, TRUE)
        [] st = "value" /\ c.t = "{" ->
             Scan(toks, i + 1, "first", depth + 1, key,
                  IF depth = 1 THEN KVPut(kv, key, <<>>) ELSE kv, TRUE)
        [] st = "next" /\ c.t = "," ->
             Scan(toks, i + 1, "key", depth, key, kv, typeErr)
        [] OTHER -> [err |-> DecSyntax, kv |-> kv]

\* json.NewDecoder(r).Decode(&m) with m := make(map[string]string), src/main.go 82-83:
\* decodes the FIRST JSON value of the input and leaves what follows it unread.
JSONDecode(content) ==
    LET toks == SelectSeq(content, LAMBDA x : x.t # "ws") IN
    IF toks = <<>> THEN [err |-> DecEOF, m |-> MakeMap]
    ELSE CASE toks[1].t = "{" ->
                LET r == Scan(toks, 2, "first", 1, <<>>, EmptyKV, FALSE)
                IN  [err |-> r.err, m |-> [isNil |-> FALSE, kv |-> r.kv]]
           [] toks[1].t = "null" -> [err |-> NoErr, m |-> NilMap]
           [] toks[1].t \in {"str", "num"} -> [err |-> DecType, m |-> MakeMap]
           [] OTHER -> [err |-> DecSyntax, m |-> MakeMap]

\* NewFileStorage that wraps a fresh map instead of the decoded one.
NewFileStorageFresh(content) ==
    LET d == JSONDecode(content) IN
    IF d.err # NoErr /\ d.err # DecEOF
    THEN [err |-> ErrOpenDecode, m |-> NilMap]
    ELSE [err |-> NoErr, m |-> MakeMap]

\* NewFileStorage without the io.EOF exemption.
NewFileStorageEOFFails(content) ==
    LET d == JSONDecode(content) IN
    IF d.err # NoErr
    THEN [err |-> ErrOpenDecode, m |-> NilMap]
    ELSE [err |-> NoErr, m |-> d.m]

\* src/main.go 73-91: the store NewFileStorage returns for a file holding content.
NewFileStorage(content) ==
    LET d == JSONDecode(content) IN
    IF d.err # NoErr /\ d.err # DecEOF
    THEN [err |-> ErrOpenDecode, m |-> NilMap]
    ELSE [err |-> NoErr, m |-> d.m]

\* ------------------------------------------------------------------ state
NoReq == [op |-> "none", route |-> "none", key |-> <<>>, value |-> <<>>]
NoRet == [op |-> "none", route |-> "none", key |-> <<>>, value |-> <<>>,
          err |-> NoErr, status |-> 0, body |-> <<>>]

NoFail == [set |-> FALSE, key |-> <<>>, value |-> <<>>]
NoHist == [okSet |-> FALSE, wrote |-> [r \in Routes |-> {}], loaded |-> {}, empty |-> FALSE,
           failed |-> NoFail, ioFailed |-> FALSE]

\* The Set of h returns an error: it becomes the latest failed Set.
Failed(h) == [hist EXCEPT !.failed = [set |-> TRUE, key |-> req[h].key, value |-> req[h].value],
                          !.ioFailed = TRUE]

Obj1(k, v) == <<LBrace, Lit(k), Colon, v, RBrace>>
Obj2(k1, v1, k2, v2) == <<LBrace, Lit(k1), Colon, v1, Comma, Lit(k2), Colon, v2, RBrace>>

\* What somefile.json may hold when the process is first started.
InitFiles ==
    { <<>>,
      <<Newline>>,
      Obj1(<<"a">>, Lit(<<"a">>)),
      Obj2(<<"a">>, Lit(<<"a">>), <<"b">>, Lit(<<"b">>)) \o <<Newline>>,
      Obj2(<<"a">>, Lit(<<"a">>), <<"a">>, Lit(<<"b">>)),
      Obj1(<<"a">>, Lit(<<"b">>)) \o <<Junk>>,
      Obj1(<<"a">>, Lit(<<"a">>)) \o <<Newline>> \o Obj1(<<"a">>, Lit(<<"b">>)) \o <<Newline>>,
      Obj1(<<"xFF">>, Lit(<<"xFF">>)),
      Obj1(<<"a">>, Null),
      Obj1(<<"a">>, Num),
      <<LBrace, Lit(<<"a">>), Colon, LBrace, RBrace, RBrace>>,
      <<LBrace, Lit(<<"a">>), Colon>>,
      <<Null>>,
      <<Lit(<<"a">>)>>,
      <<Num>>,
      <<Junk>> }

Init ==
    /\ phase = "boot"
    /\ file \in InitFiles
    /\ store = [r \in Routes |-> NilMap]
    /\ off = 0
    /\ pc = [h \in Handlers |-> "idle"]
    /\ req = [h \in Handlers |-> NoReq]
    /\ buf = [h \in Handlers |-> <<>>]
    /\ ret = [h \in Handlers |-> NoRet]
    /\ logged = ""
    /\ hist = NoHist

\* ------------------------------------------------------------------ main
\* src/main.go 122-138.  os.OpenFile with O_CREATE makes an absent file an empty
\* one, so an absent file is the file <<>>.  The decoder reads the small file
\* to its end, which leaves the cursor there.
Main ==
    /\ phase = "boot"
    /\ \E outcome \in {"ok", "open fails", "listen fails"} :
         LET fs == NewFileStorage(file) IN
         IF outcome = "open fails"
         THEN /\ phase' = "exited"
              /\ logged' = ErrOpen
              /\ UNCHANGED <<store, off, hist>>
         ELSE IF fs.err # NoErr
         THEN /\ phase' = "exited"
              /\ logged' = fs.err
              /\ off' = Len(file)
              /\ UNCHANGED <<store, hist>>
         ELSE /\ phase' = IF outcome = "ok" THEN "serving" ELSE "exited"
              /\ logged' = IF outcome = "ok" THEN "" ELSE ErrListen
              /\ store' = [memory |-> NewMemStorage, file |-> fs.m]
              /\ off' = Len(file)
              /\ hist' = [NoHist EXCEPT !.loaded = DOMAIN fs.m.kv, !.empty = (file = <<>>)]
    /\ UNCHANGED <<file, pc, req, buf, ret>>

\* The process is killed, or has exited, and is started again: the file stays.
Restart ==
    /\ phase \in {"serving", "exited"}
    /\ phase' = "boot"
    /\ store' = [r \in Routes |-> NilMap]
    /\ off' = 0
    /\ pc' = [h \in Handlers |-> "idle"]
    /\ req' = [h \in Handlers |-> NoReq]
    /\ buf' = [h \in Handlers |-> <<>>]
    /\ ret' = [h \in Handlers |-> NoRet]
    /\ logged' = ""
    /\ hist' = NoHist
    /\ UNCHANGED file

\* ------------------------------------------------------------------ handlers
\* The router hands a request to a handler goroutine (src/main.go 131-135).
Dispatch(h, op, route, key, value) ==
    /\ phase = "serving"
    /\ pc[h] = "idle"
    /\ pc' = [pc EXCEPT ![h] = "call"]
    /\ req' = [req EXCEPT ![h] = [op |-> op, route |-> route, key |-> key,
                                  value |-> IF op = "post" THEN value ELSE <<>>]]
    /\ ret' = [ret EXCEPT ![h] = NoRet]
    /\ UNCHANGED <<phase, store, file, off, buf, logged, hist>>

\* Reply that answers a missing key with 404.
ReplyNotFound404(h, value, err) ==
    [op |-> req[h].op, route |-> req[h].route, key |-> req[h].key, value |-> value,
     err |-> err,
     status |-> IF err = NoErr THEN 200
                ELSE IF err = ErrNilMap THEN 0
                ELSE IF err = ErrNotFound THEN 404 ELSE 500,
     body |-> IF err = NoErr THEN value
              ELSE IF err = ErrNilMap THEN <<>>
              ELSE IF req[h].op = "get" THEN <<err, "\n">> \o value
              ELSE <<err, "\n">>]

\* What the handler leaves in the response for a call that returned err.
Reply(h, value, err) ==
    [op |-> req[h].op, route |-> req[h].route, key |-> req[h].key, value |-> value,
     err |-> err,
     status |-> IF err = NoErr THEN 200 ELSE IF err = ErrNilMap THEN 0 ELSE 500,
     body |-> IF err = NoErr THEN value
              ELSE IF err = ErrNilMap THEN <<>>
              ELSE IF req[h].op = "get" THEN <<err, "\n">> \o value
              ELSE <<err, "\n">>]

Return(h, value, err) ==
    /\ pc' = [pc EXCEPT ![h] = "idle"]
    /\ ret' = [ret EXCEPT ![h] = Reply(h, value, err)]
    /\ req' = [req EXCEPT ![h] = NoReq]
    /\ buf' = [buf EXCEPT ![h] = <<>>]

\* GetHandler whose FileStorage.Get rewinds the file before the lookup.
GetHandlerRewinds(h) ==
    /\ phase = "serving"
    /\ pc[h] = "call"
    /\ req[h].op = "get"
    /\ LET r == MemGet(store[req[h].route], req[h].key)
       IN  Return(h, r.value, r.err)
    /\ off' = IF req[h].route = "file" THEN 0 ELSE off
    /\ UNCHANGED <<phase, store, file, logged, hist>>

\* src/main.go 94-105 with 24-32 and 48-50: FileStorage.Get is MemStorage.Get.
GetHandler(h) ==
    /\ phase = "serving"
    /\ pc[h] = "call"
    /\ req[h].op = "get"
    /\ LET r == MemGet(store[req[h].route], req[h].key)
       IN  Return(h, r.value, r.err)
    /\ UNCHANGED <<phase, store, file, off, logged, hist>>

\* src/main.go 108-120 with 34-37: POST on the memory route.
PostMemory(h) ==
    /\ phase = "serving"
    /\ pc[h] = "call"
    /\ req[h].op = "post"
    /\ req[h].route = "memory"
    /\ LET r == MemSet(store["memory"], req[h].key, req[h].value)
       IN  /\ store' = [store EXCEPT !["memory"] = r.m]
           /\ Return(h, req[h].value, r.err)
    /\ hist' = [hist EXCEPT !.wrote["memory"] = @ \cup {req[h].key}]
    /\ UNCHANGED <<phase, file, off, logged>>

\* src/main.go 53-55: FileStorage.Set, step 1, the mutation of the inner map.
SetMemory(h) ==
    /\ phase = "serving"
    /\ pc[h] = "call"
    /\ req[h].op = "post"
    /\ req[h].route = "file"
    /\ LET r == MemSet(store["file"], req[h].key, req[h].value)
       IN  /\ store' = [store EXCEPT !["file"] = r.m]
           /\ IF r.err # NoErr
              THEN Return(h, req[h].value, r.err)
              ELSE /\ pc' = [pc EXCEPT ![h] = "truncate"]
                   /\ UNCHANGED <<req, buf, ret>>
    /\ hist' = [hist EXCEPT !.wrote["file"] = @ \cup {req[h].key},
                            !.failed = IF @.key = req[h].key THEN NoFail ELSE @]
    /\ UNCHANGED <<phase, file, off, logged>>

\* SetTruncate that takes the key out of the map again when Truncate fails.
SetTruncateRollback(h) ==
    /\ phase = "serving"
    /\ pc[h] = "truncate"
    /\ \E ok \in BOOLEAN :
         IF ok
         THEN /\ file' = <<>>
              /\ pc' = [pc EXCEPT ![h] = "seek"]
              /\ UNCHANGED <<req, buf, ret, store>>
         ELSE /\ Return(h, req[h].value, ErrTruncate)
              /\ store' = [store EXCEPT !["file"].kv =
                              [k \in (DOMAIN @) \ {req[h].key} |-> @[k]]]
              /\ UNCHANGED file
    /\ UNCHANGED <<phase, off, logged, hist>>

\* SetTruncate whose failing Truncate has emptied the file all the same.
SetTruncateEmptiesOnError(h) ==
    /\ phase = "serving"
    /\ pc[h] = "truncate"
    /\ \E ok \in BOOLEAN :
         /\ file' = <<>>
         /\ IF ok
            THEN /\ pc' = [pc EXCEPT ![h] = "seek"]
                 /\ UNCHANGED <<req, buf, ret>>
            ELSE Return(h, req[h].value, ErrTruncate)
    /\ UNCHANGED <<phase, store, off, logged, hist>>

\* src/main.go 58-61: fs.f.Truncate(0); the cursor stays where it was.
SetTruncate(h) ==
    /\ phase = "serving"
    /\ pc[h] = "truncate"
    /\ \E ok \in BOOLEAN :
         IF ok
         THEN /\ file' = <<>>
              /\ pc' = [pc EXCEPT ![h] = "seek"]
              /\ UNCHANGED <<req, buf, ret, hist>>
         ELSE /\ Return(h, req[h].value, ErrTruncate)
              /\ hist' = Failed(h)
              /\ UNCHANGED file
    /\ UNCHANGED <<phase, store, off, logged>>

\* SetSeek that goes on to the encoder when Seek fails.
SetSeekIgnoreErr(h) ==
    /\ phase = "serving"
    /\ pc[h] = "seek"
    /\ \E ok \in BOOLEAN :
         /\ off' = IF ok THEN 0 ELSE off
         /\ pc' = [pc EXCEPT ![h] = "encode"]
         /\ UNCHANGED <<req, buf, ret>>
    /\ UNCHANGED <<phase, store, file, logged, hist>>

\* src/main.go 62-65: fs.f.Seek(0, 0)
SetSeek(h) ==
    /\ phase = "serving"
    /\ pc[h] = "seek"
    /\ \E ok \in BOOLEAN :
         IF ok
         THEN /\ off' = 0
              /\ pc' = [pc EXCEPT ![h] = "encode"]
              /\ UNCHANGED <<req, buf, ret, hist>>
         ELSE /\ Return(h, req[h].value, ErrSeek)
              /\ hist' = Failed(h)
              /\ UNCHANGED off
    /\ UNCHANGED <<phase, store, file, logged>>

\* src/main.go 67: Encode marshals the whole map into a buffer ...
SetEncode(h) ==
    /\ phase = "serving"
    /\ pc[h] = "encode"
    /\ buf' = [buf EXCEPT ![h] = Marshal(store["file"])]
    /\ pc' = [pc EXCEPT ![h] = "write"]
    /\ UNCHANGED <<phase, store, file, off, req, ret, logged, hist>>

\* How many tokens of b a call of Write may have written when it returns:
\* none, a first one, all but the last, or all of them (success).
Written(b) == {0, 1, Len(b) - 1, Len(b)}

\* SetWrite on a file opened without O_APPEND: the bytes go to the cursor,
\* over what is there (a gap below the cursor reads as zero bytes).
SetWriteAtCursor(h) ==
    /\ phase = "serving"
    /\ pc[h] = "write"
    /\ \E n \in Written(buf[h]) :
         LET gap == [i \in 1..(IF off > Len(file) THEN off - Len(file) ELSE 0) |-> Junk]
             head == SubSeq(file, 1, IF off > Len(file) THEN Len(file) ELSE off) \o gap
             tail == SubSeq(file, off + n + 1, Len(file))
         IN  /\ file' = head \o SubSeq(buf[h], 1, n) \o tail
             /\ off' = off + n
             /\ Return(h, req[h].value, IF n = Len(buf[h]) THEN NoErr ELSE ErrEncode)
             /\ hist' = IF n = Len(buf[h]) THEN [hist EXCEPT !.okSet = TRUE] ELSE Failed(h)
    /\ UNCHANGED <<phase, store, logged>>

\* ... and hands it to one Write on fs.f (src/main.go 67-71).  The file was
\* opened with O_APPEND (src/main.go 76): the bytes go to the end of the file,
\* wherever the cursor is.  A failing write may have written a prefix.
SetWrite(h) ==
    /\ phase = "serving"
    /\ pc[h] = "write"
    /\ \E n \in Written(buf[h]) :
         /\ file' = file \o SubSeq(buf[h], 1, n)
         /\ off' = Len(file')
         /\ Return(h, req[h].value, IF n = Len(buf[h]) THEN NoErr ELSE ErrEncode)
         /\ hist' = IF n = Len(buf[h]) THEN [hist EXCEPT !.okSet = TRUE] ELSE Failed(h)
    /\ UNCHANGED <<phase, store, logged>>

HandlerStep(h) ==
    \/ \E op \in {"get", "post"}, route \in Routes, key \in Keys, value \in Values :
           Dispatch(h, op, route, key, value)
    \/ GetHandler(h)
    \/ PostMemory(h)
    \/ SetMemory(h)
    \/ SetTruncate(h)
    \/ SetSeek(h)
    \/ SetEncode(h)
    \/ SetWrite(h)

\* One request at a time.
Next ==
    \/ Main
    \/ Restart
    \/ \E h \in SeqHandlers : HandlerStep(h)

Spec == Init /\ [][Next]_vars

\* ------------------------------------------------------------------ concurrent requests
\* net/http serves each request on its own goroutine (src/main.go 137) and
\* nothing in the stores synchronizes them.
ConcKeys == {<<"a">>, <<"b">>}
ConcValues == {<<"a">>}
ConcFiles == {<<>>, Obj1(<<"a">>, Lit(<<"a">>))}

ErrRace == "fatal error: concurrent map access"

ConcInit == Init /\ file \in ConcFiles

\* h is about to assign to the map (src/main.go 35) / to read it (27, 67).
MapWrite(h) == pc[h] = "call" /\ req[h].op = "post"
MapRead(h) == (pc[h] = "call" /\ req[h].op = "get") \/ pc[h] = "encode"

\* Two goroutines are at unsynchronized accesses of the same map, one a write.
Race(h) ==
    \E q \in Handlers \ {h} :
        /\ req[q].route = req[h].route
        /\ \/ MapWrite(h) /\ (MapWrite(q) \/ MapRead(q))
           \/ MapRead(h) /\ MapWrite(q)

\* The Go runtime may detect the racing map access and kill the process;
\* when it does not, the accesses take effect one after the other.
RuntimeFatal(h) ==
    /\ phase = "serving"
    /\ Race(h)
    /\ phase' = "exited"
    /\ logged' = ErrRace
    /\ UNCHANGED <<store, file, off, pc, req, buf, ret, hist>>

ConcHandlerStep(h) ==
    \/ \E op \in {"get", "post"}, key \in ConcKeys, value \in ConcValues :
           Dispatch(h, op, "file", key, value)
    \/ GetHandler(h)
    \/ SetMemory(h)
    \/ SetTruncate(h)
    \/ SetSeek(h)
    \/ SetEncode(h)
    \/ SetWrite(h)
    \/ RuntimeFatal(h)

ConcNext ==
    \/ Main
    \/ \E h \in Handlers : ConcHandlerStep(h)

ConcSpec == ConcInit /\ [][ConcNext]_vars

\* ================================================================== properties
Get(route, key) == MemGet(store[route], key)
Found(value) == [value |-> value, err |-> NoErr]
NotFound == [value |-> <<>>, err |-> ErrNotFound]

\* h has completed a Set on route, which returned err (nil or an error).
SetReturned(h, route) ==
    /\ phase = "serving"
    /\ ret[h].op = "post"
    /\ ret[h].route = route
    /\ ret[h].err # ErrNilMap

SetFailed(h) ==
    /\ SetReturned(h, "file")
    /\ ret[h].err \in {ErrTruncate, ErrSeek, ErrEncode}

SetSucceeded(h) ==
    /\ SetReturned(h, "file")
    /\ ret[h].err = NoErr

NoSetInProgress == \A h \in Handlers : req[h].op # "post"

\* Every string a Get can tell apart in the current state.
Probes == Keys \cup DOMAIN store["file"].kv \cup DOMAIN store["memory"].kv

\* The file, decoded as JSON, is the map of the file store.
FileIsMemory ==
    LET d == JSONDecode(file) IN d.err = NoErr /\ d.m = store["file"]

C2_FileEqualsMemory ==
    \A h \in Handlers : SetSucceeded(h) => FileIsMemory

\* C3: once some Set of the file store has returned nil, the file decodes to
\* the in-memory map in every later state in which no Set is in progress.
C3_NeverDiverge ==
    (phase = "serving" /\ hist.okSet /\ NoSetInProgress) => FileIsMemory

\* C4: right after a successful Set, a new FileStorage on the same file is
\* constructed without error and its Get agrees with the old store's on every key.
C4_Reopen ==
    \A h \in Handlers :
        SetSucceeded(h) =>
            LET fs == NewFileStorage(file) IN
            /\ fs.err = NoErr
            /\ \A k \in Probes : MemGet(fs.m, k) = Get("file", k)

\* C5: when Set(k, v) of the file store returned a truncate, seek or encode
\* error, the caller got status 500 and yet Get(k) returns v with no error.
C5_FailedSetVisible ==
    \A h \in Handlers :
        SetFailed(h) =>
            /\ ret[h].status = 500
            /\ Get("file", ret[h].key) = Found(ret[h].value)

C5_Witness ==
    /\ SetFailed("h1")
    /\ ret["h1"].err = ErrTruncate
    /\ Get("file", <<"a">>) = Found(<<"a">>)
    /\ MemGet(NewFileStorage(file).m, <<"a">>) = NotFound

\* C6: a Set of the file store runs mutate-memory, truncate, seek, encode-and-write
\* in this order; a failing step returns at once, leaving undone what the
\* later steps do, with the error of that step; nil is returned only by the
\* write, after the three steps before it have taken effect.
C6_StepOrder ==
    [][\A h \in Handlers :
        (req[h].op = "post" /\ req[h].route = "file" /\ pc'[h] # pc[h] /\ phase' = "serving") =>
            CASE pc[h] = "call" ->
                   /\ file' = file /\ off' = off
                   /\ \/ pc'[h] = "truncate" /\ MemGet(store'["file"], req[h].key) = Found(req[h].value)
                      \/ pc'[h] = "idle" /\ ret'[h].err = ErrNilMap
              [] pc[h] = "truncate" ->
                   /\ store' = store /\ off' = off
                   /\ \/ pc'[h] = "seek" /\ file' = <<>>
                      \/ pc'[h] = "idle" /\ ret'[h].err = ErrTruncate /\ file' = file
              [] pc[h] = "seek" ->
                   /\ store' = store /\ file' = file /\ file = <<>>
                   /\ \/ pc'[h] = "encode" /\ off' = 0
                      \/ pc'[h] = "idle" /\ ret'[h].err = ErrSeek /\ off' = off
              [] pc[h] = "encode" ->
                   /\ store' = store /\ file' = file /\ off' = off
                   /\ pc'[h] = "write" /\ buf'[h] = Marshal(store["file"])
              [] pc[h] = "write" ->
                   /\ store' = store /\ pc'[h] = "idle"
                   /\ file = <<>> /\ off = 0
                   /\ Get("file", req[h].key) = Found(req[h].value)
                   /\ \/ ret'[h].err = NoErr /\ file' = buf[h]
                      \/ /\ ret'[h].err = ErrEncode
                         /\ Len(file') < Len(buf[h])
                         /\ file' = SubSeq(buf[h], 1, Len(file'))
    ]_vars

C6_Witness ==
    /\ SetFailed("h1")
    /\ ret["h1"].err = ErrSeek
    /\ file = <<>>
    /\ off # 0
    /\ hist.okSet

\* C7: on both stores, a Get of a key that Set was never called with, and
\* that NewFileStorage did not load, returns the not-found error.
C7_NeverSetNotFound ==
    /\ \A h \in Handlers :
         ( /\ phase = "serving"
           /\ ret[h].op = "get"
           /\ ret[h].key \notin hist.wrote[ret[h].route]
           /\ ret[h].route = "file" => ret[h].key \notin hist.loaded )
         => ret[h].err = ErrNotFound /\ ret[h].status = 500
    /\ \A r \in Routes : \A k \in Keys :
         ( /\ phase = "serving"
           /\ k \notin hist.wrote[r]
           /\ r = "file" => k \notin hist.loaded )
         => Get(r, k) = NotFound

C7_Witness ==
    /\ phase = "serving"
    /\ ret["h1"].op = "get"
    /\ ret["h1"].route = "file"
    /\ ret["h1"].key = <<"xFF">>
    /\ ret["h1"].err = ErrNotFound
    /\ hist.wrote = [memory |-> {<<"xFF">>}, file |-> {<<"a">>}]
    /\ hist.loaded # {}

\* The tokens of content that are not white space.
Significant(content) == SelectSeq(content, LAMBDA x : x.t # "ws")

\* content is, as a whole, one JSON object of string keys and string values.
IsStringObject(content) ==
    LET toks == Significant(content)
        n == Len(toks)
    IN  /\ n >= 2
        /\ toks[1] = LBrace
        /\ toks[n] = RBrace
        /\ n = 2 \/ (n - 1) % 4 = 0
        /\ \A i \in 2..(n - 1) :
             CASE (i - 2) % 4 = 1 -> toks[i] = Colon
               [] (i - 2) % 4 = 3 -> toks[i] = Comma
               [] OTHER -> toks[i].t = "str" /\ \A j \in 1..Len(toks[i].s) : toks[i].s[j] # "xFF"

\* The value the object content gives to key (the last member of that name).
ObjectGet(content, key) ==
    LET toks == Significant(content)
        at == {i \in 2..(Len(toks) - 1) : (i - 2) % 4 = 0 /\ toks[i].s = key}
    IN  IF at = {} THEN NotFound
        ELSE Found(toks[(CHOOSE i \in at : \A j \in at : j <= i) + 2].s)

\* No Set has touched the file since NewFileStorage read it.
FreshlyOpened == phase = "serving" /\ hist.wrote["file"] = {}

\* C8: a FileStorage is only ever constructed on a zero-length file or on a
\* file that is one JSON object of strings; on any other content
\* construction fails with the decode error.
C8_InvalidRejected ==
    /\ FreshlyOpened => (file = <<>> \/ IsStringObject(file))
    /\ (phase = "exited" /\ logged = ErrListen) => (file = <<>> \/ IsStringObject(file))

\* C9: constructed on a file that is a JSON object of strings, and before
\* any Set, the store's Get returns the object's value for each of its keys
\* and not-found for every other key; construction does not fail to decode.
C9_LoadsObject ==
    /\ (FreshlyOpened /\ IsStringObject(file)) =>
           /\ \A k \in Probes \cup {<<"b">>, <<"uFFFD">>, <<>>} :
                Get("file", k) = ObjectGet(file, k)
           /\ hist.loaded = DOMAIN store["file"].kv
    /\ (phase = "exited" /\ logged = ErrOpenDecode) => ~IsStringObject(file)

C9_Witness ==
    /\ FreshlyOpened
    /\ IsStringObject(file)
    /\ Get("file", <<"a">>) = Found(<<"a">>)
    /\ Get("file", <<"b">>) = Found(<<"b">>)
    /\ Get("file", <<"xFF">>) = NotFound
    /\ ret["h1"].op = "get"

\* C10: construction on a zero-length file does not fail to decode; the store
\* has no entries until a Set, every Get on it then returns not-found, its
\* map is not nil, and no Set on it ever panics: a Set fails only by I/O.
C10_EmptyFile ==
    /\ (phase = "exited" /\ logged = ErrOpenDecode) => file # <<>>
    /\ (phase = "serving" /\ hist.empty) =>
           /\ ~store["file"].isNil
           /\ hist.loaded = {}
           /\ hist.wrote["file"] = {} =>
                /\ store["file"] = MakeMap
                /\ \A k \in Keys : Get("file", k) = NotFound
           /\ \A h \in Handlers : ret[h].err # ErrNilMap
           /\ \A h \in Handlers :
                (ret[h].op = "post" /\ ret[h].route = "file")
                    => ret[h].err \in {NoErr, ErrTruncate, ErrSeek, ErrEncode}

C10_Witness ==
    /\ phase = "serving"
    /\ hist.empty
    /\ SetSucceeded("h1")
    /\ Cardinality(hist.wrote["file"]) = 1
    /\ FileIsMemory

\* C11: a Get, hit or miss, on either store changes neither map, nor the
\* content of the file, nor the cursor of the file handle.
C11_GetNoSideEffect ==
    [][\A h \in Handlers :
        (pc[h] = "call" /\ req[h].op = "get" /\ pc'[h] = "idle" /\ phase' = "serving") =>
            /\ store' = store
            /\ file' = file
            /\ off' = off
            /\ ret'[h].op = "get"
    ]_vars

C11_Witness ==
    /\ phase = "serving"
    /\ ret["h1"].op = "get"
    /\ ret["h1"].route = "file"
    /\ ret["h1"].err = NoErr
    /\ off # 0
    /\ hist.okSet

\* C12: in every state of the running service MemStorage.Set returns nil for
\* every key and value, on the memory store and on the map inside the file
\* store, and MemStorage.Get returns no error but not-found, for absent keys.
C12_MemSetAlwaysSucceeds ==
    phase = "serving" =>
        \A r \in Routes : \A k \in Keys :
            /\ \A v \in Values : MemSet(store[r], k, v).err = NoErr
            /\ Get(r, k).err \in {NoErr, ErrNotFound}
            /\ Get(r, k).err = ErrNotFound <=> k \notin DOMAIN store[r].kv

\* The text http.Error puts in the body for err.
ErrorBody(err) == <<err, "\n">>

\* C13: a GET of an absent key is answered 500 with the error text, a GET
\* of a present key 200 with the value; a POST whose Set returned nil is
\* answered 200 with the value, a POST whose Set returned an error 500 with
\* the error text and no value.
C13_HttpMapping ==
    \A h \in Handlers :
        phase = "serving" =>
            /\ ret[h].op = "get" =>
                 IF ret[h].key \in DOMAIN store[ret[h].route].kv
                 THEN /\ ret[h].status = 200
                      /\ ret[h].body = store[ret[h].route].kv[ret[h].key]
                 ELSE /\ ret[h].status = 500
                      /\ ret[h].body = ErrorBody(ErrNotFound)
            /\ (ret[h].op = "post" /\ ret[h].err = NoErr) =>
                 /\ ret[h].status = 200
                 /\ ret[h].body = ret[h].value
            /\ (ret[h].op = "post" /\ ret[h].err \in {ErrTruncate, ErrSeek, ErrEncode}) =>
                 /\ ret[h].status = 500
                 /\ ret[h].body = ErrorBody(ret[h].err)
                 /\ ret[h].route = "file"

C13_Witness ==
    /\ phase = "serving"
    /\ ret["h1"].op = "get"
    /\ ret["h1"].route = "memory"
    /\ ret["h1"].status = 500
    /\ ret["h1"].body = ErrorBody(ErrNotFound)
    /\ DOMAIN store["memory"].kv = {<<"a">>}
    /\ hist.okSet

\* C16: one call at a time.  Up to and including a failing truncate, a Set
\* leaves the content of the file as it was before the call; when the seek
\* fails the file is empty, and a FileStorage constructed on it then is
\* constructed without error and has no entry at all.
C16_FileAfterFailedSet ==
    [][\A h \in Handlers :
        (req[h].op = "post" /\ req[h].route = "file" /\ pc'[h] # pc[h] /\ phase' = "serving") =>
            /\ pc[h] = "call" => file' = file
            /\ (pc[h] = "truncate" /\ pc'[h] = "idle") =>
                 /\ ret'[h].err = ErrTruncate
                 /\ file' = file
            /\ (pc[h] = "seek" /\ pc'[h] = "idle") =>
                 /\ ret'[h].err = ErrSeek
                 /\ file' = <<>>
                 /\ NewFileStorage(file') = [err |-> NoErr, m |-> MakeMap]
                 /\ \A k \in Probes : MemGet(NewFileStorage(file').m, k) = NotFound
    ]_vars

C16_Witness ==
    /\ SetFailed("h1")
    /\ ret["h1"].err = ErrSeek
    /\ hist.okSet
    /\ file = <<>>
    /\ Cardinality(DOMAIN store["file"].kv) = 2
    /\ Get("file", <<"a">>) = Found(<<"a">>)
    /\ MemGet(NewFileStorage(file).m, <<"a">>) = NotFound

\* C18: a step of the running service changes what Get returns for key k on
\* route r only if it is the map assignment of a Set(k, _) on route r; and only
\* a Set on the file route changes the file or its cursor.  This covers Sets
\* that go on to return an error.
C18_SetFrame ==
    [][(phase = "serving" /\ phase' = "serving") =>
        /\ \A r \in Routes :
             \A k \in Keys \cup DOMAIN store[r].kv \cup DOMAIN store'[r].kv :
                MemGet(store'[r], k) # MemGet(store[r], k) =>
                    \E h \in Handlers :
                        /\ pc[h] = "call" /\ pc'[h] # "call"
                        /\ req[h].op = "post" /\ req[h].route = r /\ req[h].key = k
                        /\ MemGet(store'[r], k) = Found(req[h].value)
        /\ \A r \in Routes :
             store'[r] # store[r] =>
                \E h \in Handlers : pc'[h] # pc[h] /\ req[h].op = "post" /\ req[h].route = r
        /\ (file' # file \/ off' # off) =>
                \E h \in Handlers : pc'[h] # pc[h] /\ req[h].op = "post" /\ req[h].route = "file"
    ]_vars

C18_Witness ==
    /\ SetFailed("h1")
    /\ Get("file", <<"a">>) = Found(<<"xFF">>)
    /\ Get("file", <<"xFF">>) = NotFound
    /\ Get("memory", <<"a">>) = Found(<<"a">>)
    /\ Get("memory", <<"xFF">>) = Found(<<"a">>)
    /\ hist.okSet

\* C17: one call at a time.  When a Set(k1, v1) of the file store has returned
\* an error and a later Set of another key returns nil, the file then decodes
\* to the whole in-memory map, k1 -> v1 included, and a FileStorage
\* constructed on the file returns v1 for k1.
C17_FailedSetMadeDurable ==
    \A h \in Handlers :
        (SetSucceeded(h) /\ hist.failed.set) =>
            /\ Get("file", hist.failed.key) = Found(hist.failed.value)
            /\ FileIsMemory
            /\ NewFileStorage(file).err = NoErr
            /\ MemGet(NewFileStorage(file).m, hist.failed.key) = Found(hist.failed.value)

\* Both handlers are idle and the last call of each was a Set of the file
\* store that returned nil.
BothSetsDone ==
    /\ phase = "serving"
    /\ \A h \in Handlers : pc[h] = "idle" /\ SetSucceeded(h)

\* The serializations of the parts of the final in-memory map.
PartDocuments ==
    { Marshal([isNil |-> FALSE, kv |-> [k \in S |-> store["file"].kv[k]]]) :
        S \in SUBSET DOMAIN store["file"].kv }

\* C14: when two Sets of the file store have run concurrently and both
\* returned nil, the file is either the serialization of the final map or
\* two concatenated documents, one of them that serialization and the other
\* the serialization of a part of the map. The file is opened with O_APPEND,
\* so no document is ever partially overwritten. C14_Witness is the
\* interleaving the claim asserts: no I/O failure since the process started,
\* both calls returned nil, and the file is not the serialization of the map.
C14_FileAfterConcurrentSets ==
    BothSetsDone =>
        \/ file = Marshal(store["file"])
        \/ \E d \in PartDocuments :
              \/ file = d \o Marshal(store["file"])
              \/ file = Marshal(store["file"]) \o d

C14_Witness ==
    /\ BothSetsDone
    /\ ~hist.ioFailed
    /\ hist.empty
    /\ ret["h1"].key # ret["h2"].key
    /\ file # Marshal(store["file"])
    /\ Len(file) > Len(Marshal(store["file"]))

\* C15: when two concurrent Sets of distinct keys on the file store have both
\* returned nil and no I/O failure has occurred, a FileStorage constructed on the file afterwards is
\* constructed without error and its Get returns the value set for both keys.
C15_ConcurrentSetsDurable ==
    (BothSetsDone /\ ~hist.ioFailed /\ ret["h1"].key # ret["h2"].key) =>
        LET fs == NewFileStorage(file) IN
        /\ fs.err = NoErr
        /\ \A h \in Handlers : MemGet(fs.m, ret[h].key) = Found(ret[h].value)

====
